---- MODULE Spec2Model ----
(***************************************************************************)
(* Leave Management MCP server (mcp/leave-management-mcp-server/main.py).  *)
(*                                                                         *)
(* The ledger is the module-level dict employee_leaves.  Strings that the  *)
(* code parses (dates) are sequences of one-character strings, so that     *)
(* datetime.strptime / strftime are computed character by character.       *)
(***************************************************************************)
EXTENDS Integers, Sequences, FiniteSets, TLC

VARIABLES employee_leaves, before, last, nops, pc, frame

vars == <<employee_leaves, before, last, nops, pc, frame>>

(***************************************************************************)
(* Bounds of the model.                                                    *)
(***************************************************************************)
MaxOps == 3
MaxDays == 2
NThreads == 2

\* Leave days of an employee at the start (the seed: balance plus entries).
LeaveAllowance == 20

(***************************************************************************)
(* Characters and date strings.                                            *)
(***************************************************************************)
Digits == <<"0", "1", "2", "3", "4", "5", "6", "7", "8", "9">>

IsDigit(c) == \E i \in 1..10 : Digits[i] = c

DigitVal(c) == (CHOOSE i \in 1..10 : Digits[i] = c) - 1

DigitChar(n) == Digits[n + 1]

Pad2(n) == <<DigitChar(n \div 10), DigitChar(n % 10)>>

Pad4(n) == <<DigitChar(n \div 1000), DigitChar((n \div 100) % 10),
             DigitChar((n \div 10) % 10), DigitChar(n % 10)>>

CharAt(s, i) == IF i >= 1 /\ i <= Len(s) THEN s[i] ELSE ""

IsLeap(y) == (y % 4 = 0 /\ y % 100 # 0) \/ y % 400 = 0

DaysInMonth(y, m) ==
    IF m = 2 THEN (IF IsLeap(y) THEN 29 ELSE 28)
    ELSE IF m \in {4, 6, 9, 11} THEN 30 ELSE 31

\* The value a failed conversion produces (Python raises ValueError).
ValueError == [error |-> "ValueError"]

\* %m : 1[0-2] | 0[1-9] | [1-9], followed by the literal "-" of the format.
\* Result: <<month, index of the first character after the "-">>, or <<>>.
MatchMonth(s, p) ==
    LET a == CharAt(s, p)
        b == CharAt(s, p + 1)
        c == CharAt(s, p + 2)
    IN  IF a = "1" /\ b \in {"0", "1", "2"} /\ c = "-"
            THEN <<10 + DigitVal(b), p + 3>>
        ELSE IF a = "0" /\ IsDigit(b) /\ b # "0" /\ c = "-"
            THEN <<DigitVal(b), p + 3>>
        ELSE IF IsDigit(a) /\ a # "0" /\ b = "-"
            THEN <<DigitVal(a), p + 2>>
        ELSE <<>>

\* %d : 3[01] | [12]\d | 0[1-9] | [1-9] | " "[1-9], first alternative that
\* matches.  Result: <<day, index of the first unconverted character>>.
MatchDay(s, p) ==
    LET a == CharAt(s, p)
        b == CharAt(s, p + 1)
    IN  IF a = "3" /\ b \in {"0", "1"}
            THEN <<30 + DigitVal(b), p + 2>>
        ELSE IF a \in {"1", "2"} /\ IsDigit(b)
            THEN <<10 * DigitVal(a) + DigitVal(b), p + 2>>
        ELSE IF a = "0" /\ IsDigit(b) /\ b # "0"
            THEN <<DigitVal(b), p + 2>>
        ELSE IF IsDigit(a) /\ a # "0"
            THEN <<DigitVal(a), p + 1>>
        ELSE IF a = " " /\ IsDigit(b) /\ b # "0"
            THEN <<DigitVal(b), p + 2>>
        ELSE <<>>

\* datetime.strptime(date_str, "%Y-%m-%d"): a date record or ValueError.
strptime(s) ==
    IF ~(\A i \in 1..4 : IsDigit(CharAt(s, i))) \/ CharAt(s, 5) # "-"
        THEN ValueError
    ELSE
        LET y  == 1000 * DigitVal(s[1]) + 100 * DigitVal(s[2])
                    + 10 * DigitVal(s[3]) + DigitVal(s[4])
            mm == MatchMonth(s, 6)
        IN  IF mm = <<>> THEN ValueError
            ELSE
                LET dd == MatchDay(s, mm[2])
                IN  IF dd = <<>> THEN ValueError
                    ELSE IF dd[2] # Len(s) + 1 THEN ValueError
                    ELSE IF y < 1 \/ dd[1] > DaysInMonth(y, mm[1])
                        THEN ValueError
                    ELSE [year |-> y, month |-> mm[1], day |-> dd[1]]

\* dt.strftime("%Y-%m-%d")
strftime(dt) ==
    Pad4(dt.year) \o <<"-">> \o Pad2(dt.month) \o <<"-">> \o Pad2(dt.day)

\* base.replace(day=day): ValueError when the day is not in the month.
ReplaceDay(dt, day) ==
    IF day < 1 \/ day > DaysInMonth(dt.year, dt.month) THEN ValueError
    ELSE [dt EXCEPT !.day = day]

\* The value None.
None == <<>>

_normalize_date(date_str) ==
    LET dt == strptime(date_str)
    IN  IF dt = ValueError THEN None ELSE strftime(dt)

_employee_exists(db, emp_id) == emp_id \in DOMAIN db


(***************************************************************************)
(* The handlers as functions of the ledger: each yields the returned dict  *)
(* (ret) and the ledger the call leaves behind (db).  The "message" field  *)
(* carries the fixed part of the handler's message text.                   *)
(***************************************************************************)
\* x in history
Contains(history, x) == \E i \in 1..Len(history) : history[i] = x

\* A removal that drops the last item equal to x instead of the first.
ListRemove_Last(history, x) ==
    LET k == CHOOSE i \in 1..Len(history) :
                 history[i] = x /\ \A j \in (i + 1)..Len(history) : history[j] # x
    IN  [i \in 1..(Len(history) - 1) |->
            IF i < k THEN history[i] ELSE history[i + 1]]

\* A removal that drops every item equal to x.
ListRemove_All(history, x) == SelectSeq(history, LAMBDA y : y # x)

\* list.remove(x): removes the first item equal to x (x is in the list).
ListRemove(history, x) ==
    LET k == CHOOSE i \in 1..Len(history) :
                 history[i] = x /\ \A j \in 1..(i - 1) : history[j] # x
    IN  [i \in 1..(Len(history) - 1) |->
            IF i < k THEN history[i] ELSE history[i + 1]]

\* list(reversed(history))
Reversed(history) ==
    [i \in 1..Len(history) |-> history[Len(history) + 1 - i]]

\* history[:limit], with Python's meaning of a negative stop.
SliceTo(history, limit) ==
    LET n    == Len(history)
        stop == IF limit >= 0 THEN (IF limit < n THEN limit ELSE n)
                ELSE (IF n + limit > 0 THEN n + limit ELSE 0)
    IN  SubSeq(history, 1, stop)

\* Lines 118-128 of apply_leave: the dates recorded for a request.
ExpandDates(norm_date, days) ==
    LET base == strptime(norm_date)
        step(i) == IF i = 1 THEN base ELSE ReplaceDay(base, base.day + (i - 1))
    IN  IF base = ValueError \/ \E i \in 1..days : step(i) = ValueError
            THEN <<norm_date>>
        ELSE [i \in 1..days |-> strftime(step(i))]

\* Line 131 with the deduction of a single day whatever the request.
Deduct_OneDay(balance, days) == balance - 1

\* Line 131: balance -= days
Deduct(balance, days) == balance - days

\* Line 175 with the sign of the refund reversed.
Refund_Reversed(balance) == balance - 1

\* Line 175: balance += 1
Refund(balance) == balance + 1

check_balance(db, employee_id) ==
    IF ~_employee_exists(db, employee_id)
        THEN [ret |-> [ok |-> FALSE, message |-> "Employee not found"], db |-> db]
    ELSE [ret |-> [ok |-> TRUE, employee_id |-> employee_id,
                   balance |-> db[employee_id].balance,
                   history_count |-> Len(db[employee_id].history)],
          db |-> db]

apply_leave(db, employee_id, date, days) ==
    LET norm_date == _normalize_date(date)
    IN  IF norm_date = None
            THEN [ret |-> [ok |-> FALSE, message |-> "Invalid date format"], db |-> db]
        ELSE IF days <= 0
            THEN [ret |-> [ok |-> FALSE, message |-> "Number of days must be >= 1"],
                  db |-> db]
        ELSE IF ~_employee_exists(db, employee_id)
            THEN [ret |-> [ok |-> FALSE, message |-> "Employee not found"], db |-> db]
        ELSE IF days > db[employee_id].balance
            THEN [ret |-> [ok |-> FALSE, message |-> "Not enough leave balance"],
                  db |-> db]
        ELSE
            LET applied_dates == ExpandDates(norm_date, days)
                db2 == [db EXCEPT ![employee_id].balance = Deduct(@, days),
                                  ![employee_id].history = @ \o applied_dates]
            IN  [ret |-> [ok |-> TRUE, employee_id |-> employee_id,
                          applied_dates |-> applied_dates, days |-> days,
                          new_balance |-> db2[employee_id].balance],
                 db |-> db2]

\* cancel_leave with the lookup of the employee made before the validation
\* of the date.
cancel_leave_LookupFirst(db, employee_id, date) ==
    LET norm_date == _normalize_date(date)
    IN  IF ~_employee_exists(db, employee_id)
            THEN [ret |-> [ok |-> FALSE, message |-> "Employee not found"], db |-> db]
        ELSE IF norm_date = None
            THEN [ret |-> [ok |-> FALSE, message |-> "Invalid date format"], db |-> db]
        ELSE IF ~Contains(db[employee_id].history, norm_date)
            THEN [ret |-> [ok |-> FALSE, message |-> "No leave found"], db |-> db]
        ELSE [ret |-> [ok |-> TRUE, employee_id |-> employee_id,
                       cancelled_date |-> norm_date],
              db |-> [db EXCEPT
                        ![employee_id].history = ListRemove(@, norm_date),
                        ![employee_id].balance = Refund(@)]]

\* cancel_leave with the refund made before the search of the history.
cancel_leave_RefundBeforeSearch(db, employee_id, date) ==
    LET norm_date == _normalize_date(date)
    IN  IF norm_date = None
            THEN [ret |-> [ok |-> FALSE, message |-> "Invalid date format"], db |-> db]
        ELSE IF ~_employee_exists(db, employee_id)
            THEN [ret |-> [ok |-> FALSE, message |-> "Employee not found"], db |-> db]
        ELSE IF ~Contains(db[employee_id].history, norm_date)
            THEN [ret |-> [ok |-> FALSE, message |-> "No leave found"],
                  db |-> [db EXCEPT ![employee_id].balance = Refund(@)]]
        ELSE [ret |-> [ok |-> TRUE, employee_id |-> employee_id,
                       cancelled_date |-> norm_date],
              db |-> [db EXCEPT
                        ![employee_id].history = ListRemove(@, norm_date),
                        ![employee_id].balance = Refund(@)]]

cancel_leave(db, employee_id, date) ==
    LET norm_date == _normalize_date(date)
    IN  IF norm_date = None
            THEN [ret |-> [ok |-> FALSE, message |-> "Invalid date format"], db |-> db]
        ELSE IF ~_employee_exists(db, employee_id)
            THEN [ret |-> [ok |-> FALSE, message |-> "Employee not found"], db |-> db]
        ELSE IF ~Contains(db[employee_id].history, norm_date)
            THEN [ret |-> [ok |-> FALSE, message |-> "No leave found"], db |-> db]
        ELSE [ret |-> [ok |-> TRUE, employee_id |-> employee_id,
                       cancelled_date |-> norm_date],
              db |-> [db EXCEPT
                        ![employee_id].history = ListRemove(@, norm_date),
                        ![employee_id].balance = Refund(@)]]

\* leave_history that reverses the stored list itself (list.reverse()) instead
\* of a copy of it.
leave_history_ReverseInPlace(db, employee_id, limit) ==
    IF ~_employee_exists(db, employee_id)
        THEN [ret |-> [ok |-> FALSE, message |-> "Employee not found"], db |-> db]
    ELSE [ret |-> [ok |-> TRUE, employee_id |-> employee_id,
                   history |-> SliceTo(Reversed(db[employee_id].history), limit)],
          db |-> [db EXCEPT ![employee_id].history = Reversed(@)]]

leave_history(db, employee_id, limit) ==
    IF ~_employee_exists(db, employee_id)
        THEN [ret |-> [ok |-> FALSE, message |-> "Employee not found"], db |-> db]
    ELSE [ret |-> [ok |-> TRUE, employee_id |-> employee_id,
                   history |-> SliceTo(Reversed(db[employee_id].history), limit)],
          db |-> db]

\* Lines 214-218 without the correction of a negative balance.
AdjustedBalance_NoClamp(balance, delta) == balance + delta

\* Lines 214-218 with the adjustment dropped when it would go negative.
AdjustedBalance_Refused(balance, delta) ==
    IF balance + delta < 0 THEN balance ELSE balance + delta

\* Lines 214-218: add delta, then bring a negative balance to 0.
AdjustedBalance(balance, delta) ==
    IF balance + delta < 0 THEN 0 ELSE balance + delta

\* Lines 220-225: the message of a successful adjustment, by the values it
\* is formatted from (note is not passed).
AdjustMessage(admin_id, employee_id, delta, balance) ==
    [text |-> "adjusted balance", admin_id |-> admin_id,
     employee_id |-> employee_id, delta |-> delta, new_balance |-> balance]

\* admin_adjust_balance that creates the record of an identifier it does not
\* find (a lookup with a default) instead of returning the failure.
admin_adjust_balance_Vivify(db, admin_id, employee_id, delta) ==
    LET old == IF _employee_exists(db, employee_id) THEN db[employee_id]
               ELSE [balance |-> 0, history |-> <<>>]
        db2 == [id \in DOMAIN db \cup {employee_id} |->
                   IF id = employee_id
                       THEN [old EXCEPT !.balance = AdjustedBalance(@, delta)]
                   ELSE db[id]]
    IN  [ret |-> [ok |-> TRUE, employee_id |-> employee_id,
                  new_balance |-> db2[employee_id].balance],
         db |-> db2]

admin_adjust_balance(db, admin_id, employee_id, delta) ==
    IF ~_employee_exists(db, employee_id)
        THEN [ret |-> [ok |-> FALSE, message |-> "Employee not found"], db |-> db]
    ELSE
        LET db2 == [db EXCEPT ![employee_id].balance = AdjustedBalance(@, delta)]
        IN  [ret |-> [ok |-> TRUE, employee_id |-> employee_id,
                      new_balance |-> db2[employee_id].balance,
                      message |-> AdjustMessage(admin_id, employee_id, delta,
                                                db2[employee_id].balance)],
             db |-> db2]

\* Iteration order of the dict: the order of insertion of its keys.
KeyOrder == <<"E001", "E002", "Prakash">>

list_employees(db) ==
    LET keys == SelectSeq(KeyOrder, LAMBDA k : k \in DOMAIN db)
    IN  [ret |-> [ok |-> TRUE,
                  employees |-> [i \in 1..Len(keys) |->
                      [employee_id |-> keys[i], balance |-> db[keys[i]].balance,
                       history_count |-> Len(db[keys[i]].history)]]],
         db |-> db]

(***************************************************************************)
(* Inputs of the calls.                                                    *)
(***************************************************************************)
D_2024_12_25 == <<"2", "0", "2", "4", "-", "1", "2", "-", "2", "5">>
D_2025_01_01 == <<"2", "0", "2", "5", "-", "0", "1", "-", "0", "1">>
D_2024_12_31 == <<"2", "0", "2", "4", "-", "1", "2", "-", "3", "1">>
D_2025_01_02 == <<"2", "0", "2", "5", "-", "0", "1", "-", "0", "2">>
D_2025_1_1   == <<"2", "0", "2", "5", "-", "1", "-", "1">>
D_2025_02_30 == <<"2", "0", "2", "5", "-", "0", "2", "-", "3", "0">>

\* Date strings callers pass: a seeded date written without zero padding,
\* the last day of a month and of a year, and a string in the format that is
\* not a calendar date.
DateInputs == {D_2025_1_1, D_2024_12_31, D_2025_02_30}

\* Identifiers callers pass: two seeded employees and one that is not seeded.
IdInputs == {"E001", "E002", "E999"}

DaysInputs == (0..MaxDays) \cup {25}

LimitInputs == {-1, 0, 1, 20}

DeltaInputs == {-25, -1, 0, 1}

Threads == 1..NThreads

(***************************************************************************)
(* The program run one call at a time: each action is one whole handler.   *)
(* last is the call just completed (its name, arguments and returned dict) *)
(* and before the ledger as that call found it.                            *)
(***************************************************************************)
\* The dict as the module creates it.
SeedLedger ==
    [id \in {"E001", "E002", "Prakash"} |->
        IF id = "E001"
            THEN [balance |-> 18, history |-> <<D_2024_12_25, D_2025_01_01>>]
        ELSE [balance |-> 20, history |-> <<>>]]

Init ==
    /\ employee_leaves = SeedLedger
    /\ before = employee_leaves
    /\ last = [op |-> "none"]
    /\ nops = 0
    /\ pc = [t \in Threads |-> "idle"]
    /\ frame = [t \in Threads |-> [op |-> "none"]]

Call(op, args, r) ==
    /\ nops < MaxOps
    /\ nops' = nops + 1
    /\ before' = employee_leaves
    /\ employee_leaves' = r.db
    /\ last' = [op |-> op, args |-> args, ret |-> r.ret]
    /\ UNCHANGED <<pc, frame>>

CheckBalance ==
    \E id \in IdInputs :
        Call("check_balance", [employee_id |-> id],
             check_balance(employee_leaves, id))

ApplyLeave ==
    \E id \in IdInputs, date \in DateInputs, days \in DaysInputs :
        Call("apply_leave", [employee_id |-> id, date |-> date, days |-> days],
             apply_leave(employee_leaves, id, date, days))

CancelLeave ==
    \E id \in IdInputs, date \in DateInputs :
        Call("cancel_leave", [employee_id |-> id, date |-> date],
             cancel_leave(employee_leaves, id, date))

LeaveHistory ==
    \E id \in IdInputs, limit \in LimitInputs :
        Call("leave_history", [employee_id |-> id, limit |-> limit],
             leave_history(employee_leaves, id, limit))

AdminAdjustBalance ==
    \E id \in IdInputs, delta \in DeltaInputs :
        Call("admin_adjust_balance", [employee_id |-> id, delta |-> delta],
             admin_adjust_balance(employee_leaves, "admin", id, delta))

ListEmployees ==
    Call("list_employees", [none |-> TRUE], list_employees(employee_leaves))

Next ==
    \/ CheckBalance
    \/ ApplyLeave
    \/ CancelLeave
    \/ LeaveHistory
    \/ AdminAdjustBalance
    \/ ListEmployees

Spec == Init /\ [][Next]_vars

(***************************************************************************)
(* Properties of the calls run one at a time.                              *)
(***************************************************************************)
Completed(op) == last.op = op

Succeeded(op) == last.op = op /\ last.ret.ok

\* Every record other than id's is as the call found it.
OthersUntouched(id) ==
    /\ DOMAIN employee_leaves = DOMAIN before
    /\ \A e \in DOMAIN before : e # id => employee_leaves[e] = before[e]

\* The day after dt in the calendar.
NextDay(dt) ==
    IF dt.day < DaysInMonth(dt.year, dt.month) THEN [dt EXCEPT !.day = @ + 1]
    ELSE IF dt.month < 12 THEN [dt EXCEPT !.month = @ + 1, !.day = 1]
    ELSE [year |-> dt.year + 1, month |-> 1, day |-> 1]

RECURSIVE AddDays(_, _)
AddDays(dt, n) == IF n = 0 THEN dt ELSE AddDays(NextDay(dt), n - 1)

\* The n consecutive calendar dates that start at norm_date, as strings.
ConsecutiveDates(norm_date, n) ==
    [i \in 1..n |-> strftime(AddDays(strptime(norm_date), i - 1))]

\* Number of items of history equal to x.
Count(history, x) == Cardinality({i \in 1..Len(history) : history[i] = x})

\* C1: after every sequence of completed calls, the stored balance of every
\* employee is >= 0.
C1_BalanceNonNegative ==
    \A id \in DOMAIN employee_leaves : employee_leaves[id].balance >= 0

\* C1 witness: an adjustment whose sum was negative has been made, and it
\* left the balance at 0.
C1_Witness ==
    /\ Succeeded("admin_adjust_balance")
    /\ before[last.args.employee_id].balance + last.args.delta < 0
    /\ employee_leaves[last.args.employee_id].balance = 0

\* C2: a successful apply_leave(id, date, days) takes exactly days off the
\* balance and appends to the history exactly the days consecutive calendar
\* dates starting at the normalized date, month and year ends included; it
\* returns that list as applied_dates and the stored balance as new_balance.
C2_ApplyAppendsConsecutiveDates ==
    Succeeded("apply_leave") =>
        LET id    == last.args.employee_id
            days  == last.args.days
            dates == ConsecutiveDates(_normalize_date(last.args.date), days)
        IN  /\ employee_leaves[id].balance = before[id].balance - days
            /\ employee_leaves[id].history = before[id].history \o dates
            /\ last.ret.applied_dates = dates
            /\ last.ret.new_balance = employee_leaves[id].balance

\* C3: a call that returns a failure leaves every employee's balance and
\* history as it found them.
C3_FailureLeavesLedger ==
    (last.op # "none" /\ ~last.ret.ok) => employee_leaves = before

\* C3 witness: a failed cancel_leave on a ledger that earlier calls changed.
C3_Witness ==
    /\ Completed("cancel_leave")
    /\ ~last.ret.ok
    /\ last.ret.message = "No leave found"
    /\ nops > 1
    /\ before["E002"].history # <<>>

\* C6: cancel_leave succeeds exactly when the employee exists and the
\* normalized date is in the history; it then removes the earliest occurrence
\* of that date and nothing else, keeps the order of the rest, and adds 1 to
\* the balance.
C6_CancelRemovesFirstOccurrence ==
    Completed("cancel_leave") =>
        LET id   == last.args.employee_id
            norm == _normalize_date(last.args.date)
        IN  /\ last.ret.ok <=> /\ norm # None
                               /\ id \in DOMAIN before
                               /\ Contains(before[id].history, norm)
            /\ last.ret.ok =>
                 LET h == before[id].history
                 IN  /\ \E k \in 1..Len(h) :
                           /\ h[k] = norm
                           /\ \A j \in 1..(k - 1) : h[j] # norm
                           /\ employee_leaves[id].history =
                                SubSeq(h, 1, k - 1) \o SubSeq(h, k + 1, Len(h))
                     /\ employee_leaves[id].balance = before[id].balance + 1
                     /\ OthersUntouched(id)

\* C6 witness: a cancel of a date the history held twice, with another date
\* in between.
C6_Witness ==
    /\ Succeeded("cancel_leave")
    /\ before[last.args.employee_id].history =
         <<D_2024_12_25, D_2025_01_01, D_2025_01_01>>
    /\ employee_leaves[last.args.employee_id].history =
         <<D_2024_12_25, D_2025_01_01>>

\* C7: a successful apply_leave(id, d, N) with N > 1 followed by one
\* cancel_leave(id, d): the cancel succeeds and leaves the balance at the
\* balance before the apply, minus N, plus 1.
C7_MultiDayApplyThenCancel ==
    [][(/\ Succeeded("apply_leave")
        /\ last.args.days > 1
        /\ nops' = nops + 1
        /\ last'.op = "cancel_leave"
        /\ last'.args.employee_id = last.args.employee_id
        /\ _normalize_date(last'.args.date) = _normalize_date(last.args.date))
       => /\ last'.ret.ok
          /\ employee_leaves'[last.args.employee_id].balance =
               before[last.args.employee_id].balance - last.args.days + 1]_vars

\* C7 witness: E002 after a two-day apply at 2025-01-01 and the cancel of
\* 2025-01-01.
C7_Witness ==
    /\ Succeeded("cancel_leave")
    /\ nops = 2
    /\ employee_leaves["E002"] = [balance |-> 19, history |-> <<D_2025_01_02>>]

\* C8: apply_leave(id, d, 1) followed by cancel_leave(id, d): the balance is
\* the one before the apply, and every date occurs in the history as many
\* times as before the apply.
C8_OneDayApplyThenCancel ==
    [][(/\ Succeeded("apply_leave")
        /\ last.args.days = 1
        /\ nops' = nops + 1
        /\ last'.op = "cancel_leave"
        /\ last'.args.employee_id = last.args.employee_id
        /\ _normalize_date(last'.args.date) = _normalize_date(last.args.date))
       => LET id == last.args.employee_id
              h0 == before[id].history
              h2 == employee_leaves'[id].history
          IN  /\ last'.ret.ok
              /\ employee_leaves'[id].balance = before[id].balance
              /\ Len(h2) = Len(h0)
              /\ \A i \in 1..Len(h0) : Count(h2, h0[i]) = Count(h0, h0[i])
              /\ Count(h2, _normalize_date(last.args.date))
                   = Count(h0, _normalize_date(last.args.date))]_vars

\* C8 witness: E001 after a one-day apply at the seeded 2025-01-01 and its
\* cancel, which removes the seeded entry and keeps the appended one.
C8_Witness ==
    /\ Succeeded("cancel_leave")
    /\ nops = 2
    /\ before["E001"] =
         [balance |-> 17,
          history |-> <<D_2024_12_25, D_2025_01_01, D_2025_01_01>>]
    /\ employee_leaves["E001"] =
         [balance |-> 18, history |-> <<D_2024_12_25, D_2025_01_01>>]

\* C9: for an existing employee and any delta, admin_adjust_balance succeeds,
\* sets the balance to max(0, old balance + delta), returns it as new_balance
\* and leaves the history, and every other record, unchanged.
C9_AdjustClampsAtZero ==
    (Completed("admin_adjust_balance") /\ last.args.employee_id \in DOMAIN before)
    => LET id  == last.args.employee_id
           sum == before[id].balance + last.args.delta
           new == IF sum > 0 THEN sum ELSE 0
       IN  /\ last.ret.ok
           /\ employee_leaves[id].balance = new
           /\ last.ret.new_balance = new
           /\ employee_leaves[id].history = before[id].history
           /\ OthersUntouched(id)

\* C9 witness: an adjustment that was cut at 0, on a record with a history.
C9_Witness ==
    /\ Succeeded("admin_adjust_balance")
    /\ last.args.delta < 0
    /\ before[last.args.employee_id].balance + last.args.delta < 0
    /\ before[last.args.employee_id].history # <<>>
    /\ employee_leaves[last.args.employee_id].balance = 0

\* C10 as stated: after a successful call of any operation other than
\* apply_leave, every balance is >= what it was before the call.
C10_OnlyApplyReduces ==
    (last.op \notin {"none", "apply_leave"} /\ last.ret.ok)
    => \A id \in DOMAIN before :
           employee_leaves[id].balance >= before[id].balance

\* C10 amended: apply_leave and admin_adjust_balance with a negative delta are
\* the only calls that can reduce a balance on success; after every other
\* successful call every balance is >= what it was before the call.
C10_OnlyApplyOrNegativeAdjustReduces ==
    (/\ last.op \notin {"none", "apply_leave"}
     /\ last.ret.ok
     /\ ~(last.op = "admin_adjust_balance" /\ last.args.delta < 0))
    => \A id \in DOMAIN before :
           employee_leaves[id].balance >= before[id].balance

\* C10 witness: a successful cancel_leave, which changed a balance.
C10_Witness ==
    /\ Succeeded("cancel_leave")
    /\ employee_leaves[last.args.employee_id].balance
         > before[last.args.employee_id].balance

\* The larger of a and b.
Max(a, b) == IF a >= b THEN a ELSE b

\* C11: for an existing employee and any limit, 0 and negative included,
\* leave_history returns at most limit entries (none when limit <= 0), and
\* they are the most recently inserted entries, latest first.
C11_HistoryRespectsLimit ==
    Succeeded("leave_history") =>
        LET h == before[last.args.employee_id].history
            r == last.ret.history
        IN  /\ Len(r) <= Max(last.args.limit, 0)
            /\ Len(r) <= Len(h)
            /\ \A i \in 1..Len(r) : r[i] = h[Len(h) + 1 - i]

\* C12 as stated: a call with an identifier that is not in the ledger returns
\* the failure "not found", and the keys of the ledger are the seeded keys.
C12_UnknownIdIsNotFound ==
    /\ DOMAIN employee_leaves = DOMAIN SeedLedger
    /\ (/\ last.op \notin {"none", "list_employees"}
        /\ last.args.employee_id \notin DOMAIN before)
       => (~last.ret.ok /\ last.ret.message = "Employee not found")

\* The validation of the arguments that a handler makes before it looks the
\* employee up failed: the date of apply_leave and cancel_leave, the days of
\* apply_leave.
RejectedBeforeLookup ==
    \/ /\ last.op \in {"apply_leave", "cancel_leave"}
       /\ _normalize_date(last.args.date) = None
    \/ /\ last.op = "apply_leave"
       /\ last.args.days <= 0

\* C12 amended: a call with an identifier that is not in the ledger returns a
\* failure, which is "not found" unless the date or the days of the call is
\* invalid (that failure is reported first); no call creates or deletes a
\* record: the keys of the ledger are the seeded keys.
C12_UnknownIdFailsKeysFixed ==
    /\ DOMAIN employee_leaves = DOMAIN SeedLedger
    /\ (/\ last.op \notin {"none", "list_employees"}
        /\ last.args.employee_id \notin DOMAIN before)
       => /\ ~last.ret.ok
          /\ employee_leaves = before
          /\ ~RejectedBeforeLookup => last.ret.message = "Employee not found"

\* C12 witness: an adjustment of an identifier that is not seeded, made after
\* other calls, was refused.
C12_Witness ==
    /\ Completed("admin_adjust_balance")
    /\ last.args.employee_id = "E999"
    /\ last.ret.message = "Employee not found"
    /\ nops > 1

\* C16: the result of an adjustment that was cut at 0 differs from the result
\* of an adjustment that was not cut and ends at the same balance: here the
\* same call on the same record with the balance -delta, which ends at 0
\* without a cut.
C16_ClampIsReported ==
    (/\ Succeeded("admin_adjust_balance")
     /\ before[last.args.employee_id].balance + last.args.delta < 0)
    => LET id    == last.args.employee_id
           delta == last.args.delta
           uncut == admin_adjust_balance(
                        [before EXCEPT ![id].balance = -delta], "admin", id, delta)
       IN  /\ uncut.db[id].balance = employee_leaves[id].balance
           /\ uncut.ret # last.ret

\* C17: check_balance, leave_history and list_employees leave every balance
\* and history, order included, as they found them, for every argument;
\* check_balance returns the stored balance and the number of history
\* entries, list_employees one (id, balance, history length) per key.
C17_ReadsChangeNothing ==
    /\ last.op \in {"check_balance", "leave_history", "list_employees"}
       => employee_leaves = before
    /\ Completed("check_balance") =>
         /\ last.ret.ok <=> last.args.employee_id \in DOMAIN before
         /\ last.ret.ok =>
              /\ last.ret.balance = before[last.args.employee_id].balance
              /\ last.ret.history_count = Len(before[last.args.employee_id].history)
    /\ Completed("list_employees") =>
         /\ last.ret.ok
         /\ Len(last.ret.employees) = Cardinality(DOMAIN before)
         /\ \A k \in DOMAIN before :
              \E i \in 1..Len(last.ret.employees) :
                  last.ret.employees[i] =
                      [employee_id |-> k, balance |-> before[k].balance,
                       history_count |-> Len(before[k].history)]

\* C17 witness: a leave_history of a record that holds two different dates,
\* after other calls.
C17_Witness ==
    /\ Succeeded("leave_history")
    /\ nops > 1
    /\ Len(last.ret.history) >= 2
    /\ last.ret.history[1] # last.ret.history[2]

\* Every employee's balance plus number of history entries is the allowance.
Conserved ==
    \A id \in DOMAIN employee_leaves :
        employee_leaves[id].balance + Len(employee_leaves[id].history)
            = LeaveAllowance

\* C18: balance + number of history entries is 20 for every employee in the
\* seed ledger and after every apply_leave and cancel_leave made from a
\* ledger where it is.
C18_ApplyCancelConserve ==
    [][(/\ nops' = nops + 1
        /\ last'.op \in {"apply_leave", "cancel_leave"}
        /\ Conserved)
       => Conserved']_vars

\* The failure the checks of apply_leave give in their order, "" for none.
ApplyFailure(db, id, date, days) ==
    IF _normalize_date(date) = None THEN "Invalid date format"
    ELSE IF days <= 0 THEN "Number of days must be >= 1"
    ELSE IF id \notin DOMAIN db THEN "Employee not found"
    ELSE IF days > db[id].balance THEN "Not enough leave balance"
    ELSE ""

\* The failure the checks of cancel_leave give in their order, "" for none.
CancelFailure(db, id, date) ==
    IF _normalize_date(date) = None THEN "Invalid date format"
    ELSE IF id \notin DOMAIN db THEN "Employee not found"
    ELSE IF ~Contains(db[id].history, _normalize_date(date)) THEN "No leave found"
    ELSE ""

\* C20: apply_leave reports an invalid date before days <= 0, that before an
\* unknown employee, that before an insufficient balance; cancel_leave an
\* invalid date before an unknown employee, that before a missing entry: a
\* call returns the failure of the earliest check it violates.
C20_FailurePrecedence ==
    /\ Completed("apply_leave") =>
         LET f == ApplyFailure(before, last.args.employee_id, last.args.date,
                               last.args.days)
         IN  IF f = "" THEN last.ret.ok
             ELSE ~last.ret.ok /\ last.ret.message = f
    /\ Completed("cancel_leave") =>
         LET f == CancelFailure(before, last.args.employee_id, last.args.date)
         IN  IF f = "" THEN last.ret.ok
             ELSE ~last.ret.ok /\ last.ret.message = f

\* C20 witness: an apply_leave that violates three checks (the date is not
\* a calendar date, days is 0, the employee is not seeded), made after the
\* ledger changed.
C20_Witness ==
    /\ Completed("apply_leave")
    /\ last.args.employee_id = "E999"
    /\ last.args.date = D_2025_02_30
    /\ last.args.days = 0
    /\ last.ret.message = "Invalid date format"
    /\ before # SeedLedger

(***************************************************************************)
(* The program with calls in flight at the same time.  The handlers take   *)
(* no lock: a call is a sequence of steps, one per access to the shared    *)
(* dict, and the steps of two calls interleave.  pc[t] is the line the     *)
(* call of t is at and frame[t] its arguments and local variables.  An     *)
(* augmented assignment (x -= d, x += d) is a load and a store.            *)
(***************************************************************************)
ConcIds == {"E001", "E999"}

\* Both dates are in the seeded history of E001; ten days from the second
\* leave its month.
ConcDates == {D_2025_1_1, D_2024_12_25}

\* More than half of the seeded balance of E001.
ConcDays == {10}

ConcDeltas == {-25, 1}

ConcCalls ==
    {[op |-> "apply_leave", employee_id |-> id, date |-> d, days |-> n] :
        id \in ConcIds, d \in ConcDates, n \in ConcDays}
    \cup {[op |-> "cancel_leave", employee_id |-> id, date |-> d] :
        id \in ConcIds, d \in ConcDates}
    \cup {[op |-> "admin_adjust_balance", employee_id |-> id, delta |-> n] :
        id \in ConcIds, n \in ConcDeltas}
    \cup {[op |-> "check_balance", employee_id |-> id] : id \in ConcIds}

EntryLine(op) ==
    CASE op = "apply_leave" -> "apply_94"
      [] op = "cancel_leave" -> "cancel_159"
      [] op = "admin_adjust_balance" -> "admin_210"
      [] op = "check_balance" -> "check_73"

At(t, line) == pc[t] = line

Goto(t, line, fr) ==
    /\ pc' = [pc EXCEPT ![t] = line]
    /\ frame' = [frame EXCEPT ![t] = fr]

\* return value: the call of t ends with the dict value.
Return(t, value) ==
    /\ pc' = [pc EXCEPT ![t] = "returned"]
    /\ frame' = [frame EXCEPT ![t] = [op |-> frame[t].op, args |-> frame[t].args,
                                      ret |-> value]]

\* An exception leaves the handler: the call of t ends without a dict.
Raise(t, exc) ==
    /\ pc' = [pc EXCEPT ![t] = "raised"]
    /\ frame' = [frame EXCEPT ![t] = [op |-> frame[t].op, args |-> frame[t].args,
                                      exc |-> exc]]

Local(t, name, value) == [x \in DOMAIN frame[t] \cup {name} |->
                             IF x = name THEN value ELSE frame[t][x]]

NotFound == [ok |-> FALSE, message |-> "Employee not found"]

\* The serving layer starts a call on a thread that runs none.
Invoke(t) ==
    /\ At(t, "idle")
    /\ \E c \in ConcCalls :
         Goto(t, EntryLine(c.op), [op |-> c.op, args |-> c])
    /\ UNCHANGED <<employee_leaves, before, last, nops>>

\* apply_leave, lines 94-105.
Apply_Validate(t) ==
    /\ At(t, "apply_94")
    /\ LET a == frame[t].args
           norm_date == _normalize_date(a.date)
       IN  IF norm_date = None
               THEN Return(t, [ok |-> FALSE, message |-> "Invalid date format"])
           ELSE IF a.days <= 0
               THEN Return(t, [ok |-> FALSE,
                               message |-> "Number of days must be >= 1"])
           ELSE IF ~_employee_exists(employee_leaves, a.employee_id)
               THEN Return(t, NotFound)
           ELSE Goto(t, "apply_108", Local(t, "norm_date", norm_date))
    /\ UNCHANGED <<employee_leaves, before, last, nops>>

\* apply_leave, lines 108-128: the balance is read and tested, the dates are
\* computed.
Apply_CheckBalance(t) ==
    /\ At(t, "apply_108")
    /\ LET a == frame[t].args
           balance == employee_leaves[a.employee_id].balance
       IN  IF a.days > balance
               THEN Return(t, [ok |-> FALSE, message |-> "Not enough leave balance"])
           ELSE Goto(t, "apply_131",
                     Local(t, "applied_dates", ExpandDates(frame[t].norm_date, a.days)))
    /\ UNCHANGED <<employee_leaves, before, last, nops>>

\* apply_leave, line 131, the load of balance -= days.
Apply_LoadBalance(t) ==
    /\ At(t, "apply_131")
    /\ Goto(t, "apply_131_store",
            Local(t, "loaded", employee_leaves[frame[t].args.employee_id].balance))
    /\ UNCHANGED <<employee_leaves, before, last, nops>>

\* apply_leave, line 131, the store of balance -= days.
Apply_StoreBalance(t) ==
    /\ At(t, "apply_131_store")
    /\ employee_leaves' =
         [employee_leaves EXCEPT ![frame[t].args.employee_id].balance =
             Deduct(frame[t].loaded, frame[t].args.days)]
    /\ Goto(t, "apply_132", frame[t])
    /\ UNCHANGED <<before, last, nops>>

\* apply_leave, line 132.
Apply_Extend(t) ==
    /\ At(t, "apply_132")
    /\ employee_leaves' =
         [employee_leaves EXCEPT ![frame[t].args.employee_id].history =
             @ \o frame[t].applied_dates]
    /\ Goto(t, "apply_143", frame[t])
    /\ UNCHANGED <<before, last, nops>>

\* apply_leave, lines 143-150: new_balance is read from the dict.
Apply_Return(t) ==
    /\ At(t, "apply_143")
    /\ Return(t, [ok |-> TRUE, employee_id |-> frame[t].args.employee_id,
                  applied_dates |-> frame[t].applied_dates,
                  days |-> frame[t].args.days,
                  new_balance |-> employee_leaves[frame[t].args.employee_id].balance])
    /\ UNCHANGED <<employee_leaves, before, last, nops>>

\* cancel_leave, lines 159-166.
Cancel_Validate(t) ==
    /\ At(t, "cancel_159")
    /\ LET a == frame[t].args
           norm_date == _normalize_date(a.date)
       IN  IF norm_date = None
               THEN Return(t, [ok |-> FALSE, message |-> "Invalid date format"])
           ELSE IF ~_employee_exists(employee_leaves, a.employee_id)
               THEN Return(t, NotFound)
           ELSE Goto(t, "cancel_168", Local(t, "norm_date", norm_date))
    /\ UNCHANGED <<employee_leaves, before, last, nops>>

\* cancel_leave, lines 168-171: history is the list itself, not a copy.
Cancel_Search(t) ==
    /\ At(t, "cancel_168")
    /\ IF ~Contains(employee_leaves[frame[t].args.employee_id].history,
                    frame[t].norm_date)
           THEN Return(t, [ok |-> FALSE, message |-> "No leave found"])
       ELSE Goto(t, "cancel_174", frame[t])
    /\ UNCHANGED <<employee_leaves, before, last, nops>>

\* Line 174 with the error of a missing item swallowed: the call goes on to
\* the refund.
Cancel_Remove_IgnoreMissing(t) ==
    /\ At(t, "cancel_174")
    /\ LET id == frame[t].args.employee_id
       IN  IF Contains(employee_leaves[id].history, frame[t].norm_date)
               THEN employee_leaves' =
                        [employee_leaves EXCEPT ![id].history =
                            ListRemove(@, frame[t].norm_date)]
           ELSE UNCHANGED employee_leaves
    /\ Goto(t, "cancel_175", frame[t])
    /\ UNCHANGED <<before, last, nops>>

\* cancel_leave, line 174: list.remove raises ValueError when the item is not
\* in the list any more.
Cancel_Remove(t) ==
    /\ At(t, "cancel_174")
    /\ LET id == frame[t].args.employee_id
       IN  IF Contains(employee_leaves[id].history, frame[t].norm_date)
               THEN /\ employee_leaves' =
                         [employee_leaves EXCEPT ![id].history =
                             ListRemove(@, frame[t].norm_date)]
                    /\ Goto(t, "cancel_175", frame[t])
           ELSE /\ Raise(t, ValueError)
                /\ UNCHANGED employee_leaves
    /\ UNCHANGED <<before, last, nops>>

\* cancel_leave, line 175, the load of balance += 1.
Cancel_LoadBalance(t) ==
    /\ At(t, "cancel_175")
    /\ Goto(t, "cancel_175_store",
            Local(t, "loaded", employee_leaves[frame[t].args.employee_id].balance))
    /\ UNCHANGED <<employee_leaves, before, last, nops>>

\* cancel_leave, line 175, the store of balance += 1.
Cancel_StoreBalance(t) ==
    /\ At(t, "cancel_175_store")
    /\ employee_leaves' =
         [employee_leaves EXCEPT ![frame[t].args.employee_id].balance =
             Refund(frame[t].loaded)]
    /\ Goto(t, "cancel_183", frame[t])
    /\ UNCHANGED <<before, last, nops>>

\* cancel_leave, line 183.
Cancel_Return(t) ==
    /\ At(t, "cancel_183")
    /\ Return(t, [ok |-> TRUE, employee_id |-> frame[t].args.employee_id,
                  cancelled_date |-> frame[t].norm_date])
    /\ UNCHANGED <<employee_leaves, before, last, nops>>

\* admin_adjust_balance, lines 210-212.
Admin_Validate(t) ==
    /\ At(t, "admin_210")
    /\ IF ~_employee_exists(employee_leaves, frame[t].args.employee_id)
           THEN Return(t, NotFound)
       ELSE Goto(t, "admin_214", frame[t])
    /\ UNCHANGED <<employee_leaves, before, last, nops>>

\* admin_adjust_balance, line 214, the load of balance += delta.
Admin_LoadBalance(t) ==
    /\ At(t, "admin_214")
    /\ Goto(t, "admin_214_store",
            Local(t, "loaded", employee_leaves[frame[t].args.employee_id].balance))
    /\ UNCHANGED <<employee_leaves, before, last, nops>>

\* admin_adjust_balance, line 214, the store of balance += delta.
Admin_StoreBalance(t) ==
    /\ At(t, "admin_214_store")
    /\ employee_leaves' =
         [employee_leaves EXCEPT ![frame[t].args.employee_id].balance =
             frame[t].loaded + frame[t].args.delta]
    /\ Goto(t, "admin_215", frame[t])
    /\ UNCHANGED <<before, last, nops>>

\* admin_adjust_balance, lines 215-217: the balance is read again and tested.
Admin_TestNegative(t) ==
    /\ At(t, "admin_215")
    /\ IF employee_leaves[frame[t].args.employee_id].balance < 0
           THEN Goto(t, "admin_218", frame[t])
       ELSE Goto(t, "admin_220", frame[t])
    /\ UNCHANGED <<employee_leaves, before, last, nops>>

\* admin_adjust_balance, line 218.
Admin_SetZero(t) ==
    /\ At(t, "admin_218")
    /\ employee_leaves' =
         [employee_leaves EXCEPT ![frame[t].args.employee_id].balance = 0]
    /\ Goto(t, "admin_220", frame[t])
    /\ UNCHANGED <<before, last, nops>>

\* admin_adjust_balance, lines 220-225: the message is formatted with the
\* balance read from the dict.
Admin_Message(t) ==
    /\ At(t, "admin_220")
    /\ Goto(t, "admin_227",
            Local(t, "message",
                  AdjustMessage("admin", frame[t].args.employee_id,
                                frame[t].args.delta,
                                employee_leaves[frame[t].args.employee_id].balance)))
    /\ UNCHANGED <<employee_leaves, before, last, nops>>

\* admin_adjust_balance, line 227: new_balance is read from the dict.
Admin_Return(t) ==
    /\ At(t, "admin_227")
    /\ Return(t, [ok |-> TRUE, employee_id |-> frame[t].args.employee_id,
                  new_balance |-> employee_leaves[frame[t].args.employee_id].balance,
                  message |-> frame[t].message])
    /\ UNCHANGED <<employee_leaves, before, last, nops>>

\* check_balance, lines 73-78.
Check_Validate(t) ==
    /\ At(t, "check_73")
    /\ IF ~_employee_exists(employee_leaves, frame[t].args.employee_id)
           THEN Return(t, NotFound)
       ELSE Goto(t, "check_80", frame[t])
    /\ UNCHANGED <<employee_leaves, before, last, nops>>

\* check_balance, line 80.
Check_ReadBalance(t) ==
    /\ At(t, "check_80")
    /\ Goto(t, "check_81",
            Local(t, "balance", employee_leaves[frame[t].args.employee_id].balance))
    /\ UNCHANGED <<employee_leaves, before, last, nops>>

\* check_balance, lines 81-84: history is the list itself, its length is
\* taken when the result is built.
Check_Return(t) ==
    /\ At(t, "check_81")
    /\ Return(t, [ok |-> TRUE, employee_id |-> frame[t].args.employee_id,
                  balance |-> frame[t].balance,
                  history_count |->
                      Len(employee_leaves[frame[t].args.employee_id].history)])
    /\ UNCHANGED <<employee_leaves, before, last, nops>>

NextConc ==
    \E t \in Threads :
        \/ Invoke(t)
        \/ Apply_Validate(t)
        \/ Apply_CheckBalance(t)
        \/ Apply_LoadBalance(t)
        \/ Apply_StoreBalance(t)
        \/ Apply_Extend(t)
        \/ Apply_Return(t)
        \/ Cancel_Validate(t)
        \/ Cancel_Search(t)
        \/ Cancel_Remove(t)
        \/ Cancel_LoadBalance(t)
        \/ Cancel_StoreBalance(t)
        \/ Cancel_Return(t)
        \/ Admin_Validate(t)
        \/ Admin_LoadBalance(t)
        \/ Admin_StoreBalance(t)
        \/ Admin_TestNegative(t)
        \/ Admin_SetZero(t)
        \/ Admin_Message(t)
        \/ Admin_Return(t)
        \/ Check_Validate(t)
        \/ Check_ReadBalance(t)
        \/ Check_Return(t)

SpecConc == Init /\ [][NextConc]_vars

(***************************************************************************)
(* Properties of the calls in flight at the same time.                     *)
(***************************************************************************)
Returned(t, op) == pc[t] = "returned" /\ frame[t].op = op

Quiescent == \A t \in Threads : pc[t] \in {"idle", "returned", "raised"}

RECURSIVE SumOver(_, _)
SumOver(S, f) ==
    IF S = {} THEN 0
    ELSE LET x == CHOOSE y \in S : TRUE
         IN  f[x] + SumOver(S \ {x}, f)

\* Days of the apply_leave calls on id that returned success.
DaysDeducted(id) ==
    SumOver(Threads,
            [t \in Threads |->
                IF /\ Returned(t, "apply_leave")
                   /\ frame[t].ret.ok
                   /\ frame[t].args.employee_id = id
                    THEN frame[t].args.days ELSE 0])

\* C4: with apply_leave calls on the same employee in flight together, the
\* balance is never below 0, and once they have all returned the balance is
\* the initial balance minus the days of the calls that returned success.
C4_ConcurrentAppliesKeepBalance ==
    (\A t \in Threads : frame[t].op \in {"none", "apply_leave"})
    => \A id \in DOMAIN employee_leaves :
          /\ employee_leaves[id].balance >= 0
          /\ Quiescent =>
               employee_leaves[id].balance = SeedLedger[id].balance - DaysDeducted(id)

\* C5: no check_balance that runs while other calls are in flight returns a
\* negative balance.
C5_NoNegativeBalanceRead ==
    \A t \in Threads :
        (Returned(t, "check_balance") /\ frame[t].ret.ok)
        => frame[t].ret.balance >= 0

\* The call of thread t run alone, as one step, on the ledger db.
RunAlone(t, db) ==
    LET a == frame[t].args
    IN  CASE a.op = "apply_leave" ->
                 apply_leave(db, a.employee_id, a.date, a.days)
          [] a.op = "cancel_leave" -> cancel_leave(db, a.employee_id, a.date)
          [] a.op = "admin_adjust_balance" ->
                 admin_adjust_balance(db, "admin", a.employee_id, a.delta)
          [] a.op = "check_balance" -> check_balance(db, a.employee_id)

\* The ledgers that the calls of the threads of S, run one after the other in
\* some order, leave after each of them, starting from db.
RECURSIVE CommittedLedgers(_, _)
CommittedLedgers(db, S) ==
    {db} \cup UNION {CommittedLedgers(RunAlone(t, db).db, S \ {t}) : t \in S}

\* The calls of the threads of S, run one after the other in some order
\* starting from db, return what they returned here and leave the ledger
\* that is there now.
RECURSIVE SomeOrderGives(_, _)
SomeOrderGives(db, S) ==
    IF S = {} THEN db = employee_leaves
    ELSE \E t \in S :
            /\ pc[t] = "returned"
            /\ RunAlone(t, db).ret = frame[t].ret
            /\ SomeOrderGives(RunAlone(t, db).db, S \ {t})

Invoked == {t \in Threads : pc[t] # "idle"}

\* C13: no call throws: every call that ends, ends by returning a dict with
\* ok = true or false.
C13_NoCallThrows ==
    \A t \in Threads :
        /\ pc[t] # "raised"
        /\ pc[t] = "returned" => frame[t].ret.ok \in BOOLEAN

\* C14: the (balance, history length) a check_balance returns while other
\* calls are in flight is the pair of a committed ledger: of the seed ledger
\* or of a ledger that some of the other calls, run whole, leave.
C14_CheckBalanceReadsCommittedPair ==
    \A t \in Threads :
        (Returned(t, "check_balance") /\ frame[t].ret.ok)
        => \E db \in CommittedLedgers(SeedLedger, Invoked \ {t}) :
              /\ frame[t].ret.balance = db[frame[t].args.employee_id].balance
              /\ frame[t].ret.history_count
                   = Len(db[frame[t].args.employee_id].history)

\* C15: once concurrent apply_leave, cancel_leave and admin_adjust_balance
\* calls have all ended, the ledger and the result of each call are those of
\* the same calls run one at a time in some order.
C15_MutationsSerialize ==
    (/\ Quiescent
     /\ \A t \in Invoked :
           frame[t].op \in {"apply_leave", "cancel_leave", "admin_adjust_balance"})
    => SomeOrderGives(SeedLedger, Invoked)

\* C19: with cancel_leave calls in flight together, what has been added to a
\* balance is at most the number of entries removed from the history.
C19_CancelsNeverOverRefund ==
    (\A t \in Threads : frame[t].op \in {"none", "cancel_leave"})
    => \A id \in DOMAIN employee_leaves :
          employee_leaves[id].balance - SeedLedger[id].balance
              <= Len(SeedLedger[id].history) - Len(employee_leaves[id].history)

\* C19 witness: two cancel_leave calls of the same date, which the history
\* held once, have ended: one returned success, the other ended at the
\* removal of line 174, and one day was refunded.
C19_Witness ==
    /\ \A t \in Threads : frame[t].op \in {"none", "cancel_leave"}
    /\ \E t, u \in Threads :
          /\ Returned(t, "cancel_leave") /\ frame[t].ret.ok
          /\ pc[u] = "raised"
          /\ frame[u].args = frame[t].args
    /\ employee_leaves["E001"].balance = SeedLedger["E001"].balance + 1
    /\ Len(employee_leaves["E001"].history) = 1

====
